---- MODULE Spec2Model ----
(***************************************************************************)
(* State-machine model of karabo_data/reader2.py: DataCollection (the      *)
(* source/file registry, the index cache, the per-source key dictionary    *)
(* and the run-level train-ID list), its derivations select and            *)
(* select_trains, data assembly (get_array) and TrainIterator.             *)
(*                                                                         *)
(* Python objects live in a heap: colls[i] is the i-th DataCollection      *)
(* object.  A registry entry _source_file_mapping[s] is a Python list      *)
(* OBJECT; two collections may hold the same list.  A list object is named *)
(* by the collection that created it: colls[o].own[s] is the list created  *)
(* by collection o for source s, and colls[c].sfm[s] = o says that the     *)
(* registry of c refers to that very list.                                 *)
(***************************************************************************)
EXTENDS Integers, Sequences, FiniteSets, TLC

VARIABLES colls, opened, last, iter, calls

vars == <<colls, opened, last, iter, calls>>

(* ------------------------------ bounds --------------------------------- *)

\* number of DataCollection objects alive at once
MaxColls == 3
\* number of add_file calls in one run of the model
MaxAdds == 2
\* largest train ID / position offered as an endpoint of a range
MaxTid == 6
\* largest position (either sign) offered as an endpoint of a position range
MaxIx == 2
\* number of calls other than add_file in one run of the model
MaxCalls == 3
\* number of select_trains calls in one run where every range is tried
MaxRangeCalls == 1

(* Python's None where an integer may stand (slice start/stop/step, tid). *)
None == -100

(* ------------------------- the files on disk --------------------------- *)

Sources == {"X", "Y"}
Groups == {"image", "header"}
FileIds == {"A", "B", "C", "D"}

(* METADATA/dataSourceId of a file: CONTROL/<device> or                    *)
(* INSTRUMENT/<device>:<chan>/<group>; "" is an unused slot.               *)
Ctl(s) == [category |-> "CONTROL", h5_source |-> s]
Ins(s, g) == [category |-> "INSTRUMENT", h5_source |-> s, group |-> g]
Unused == [category |-> "", h5_source |-> ""]

(* INDEX/trainId (0 = unused slot) and dataSourceId of each file.          *)
(* A: trains 4,5 of X and Y.  B: trains 1,2 of X.  C: trains 1,2,3 of Y.   *)
(* D: a file of X that recorded no train.                                  *)
RawTrainId(f) ==
    CASE f = "A" -> <<4, 5, 0>>
      [] f = "B" -> <<1, 2>>
      [] f = "C" -> <<1, 2, 3, 0>>
      [] f = "D" -> <<0, 0>>

DataSourceId(f) ==
    CASE f = "A" -> <<Ctl("X"), Ins("Y", "image"), Ins("Y", "header"), Unused>>
      [] f = "B" -> <<Ctl("X"), Unused>>
      [] f = "C" -> <<Ins("Y", "image"), Ins("Y", "header")>>
      [] f = "D" -> <<Ctl("X")>>

(* INDEX/<source>/<group>/count of each file, one entry per train slot.    *)
FileCount(f, s, g) ==
    CASE f = "A" /\ s = "Y" /\ g = "image"  -> <<1, 0>>
      [] f = "A" /\ s = "Y" /\ g = "header" -> <<1, 1>>
      [] f = "C" /\ s = "Y" /\ g = "image"  -> <<0, 2, 1>>
      [] f = "C" /\ s = "Y" /\ g = "header" -> <<1, 1, 1>>
      [] OTHER -> <<>>

HasIndexGroup(f, s, g) ==
    \E i \in 1..Len(DataSourceId(f)) :
        DataSourceId(f)[i] = Ins(s, g)

(* The leaf datasets under /CONTROL/<s> or /INSTRUMENT/<s>, dotted.        *)
FileKeys(s) ==
    CASE s = "X" -> {"val.value", "val.timestamp"}
      [] s = "Y" -> {"image.data", "header.pulseId"}
      [] OTHER -> {}

(* key.partition('.')[0] *)
GroupOf(key) ==
    CASE key = "image.data" -> "image"
      [] key = "header.pulseId" -> "header"
      [] key = "val.value" -> "val"
      [] key = "val.timestamp" -> "val"
      [] OTHER -> key

(* ------------------------------ helpers -------------------------------- *)

Range(seq) == {seq[i] : i \in 1..Len(seq)}

RECURSIVE SortedSeq(_)
(* sorted(S) of a set of integers *)
SortedSeq(S) ==
    IF S = {} THEN <<>>
    ELSE LET m == CHOOSE x \in S : \A y \in S : x <= y
         IN <<m>> \o SortedSeq(S \ {m})

NonZero(t) == t # 0

(* tid_data[tid_data != 0] *)
FileTrainIds(f) == SelectSeq(RawTrainId(f), NonZero)

EmptyFn == [x \in {} |-> 0]

(* d restricted to the keys in D *)
Restrict(d, D) == [x \in (DOMAIN d) \cap D |-> d[x]]

(* d with d[k] = v set *)
Put(d, k, v) == [x \in (DOMAIN d) \cup {k} |-> IF x = k THEN v ELSE d[x]]

(* --------------------------- DataCollection ---------------------------- *)

(* DataCollection.__init__ *)
NewCollection ==
    [instrument_sources |-> {},
     control_sources |-> {},
     train_ids |-> <<>>,
     sfm |-> EmptyFn,
     own |-> [s \in Sources |-> <<>>],
     index_cache |-> EmptyFn,
     source_keys |-> EmptyFn]

CollIds == 1..Len(colls)

(* The list object self._source_file_mapping[s] of collection c, read      *)
(* through the heap cs.                                                    *)
SegmentsIn(cs, c, s) == cs[cs[c].sfm[s]].own[s]

Segments(c, s) == SegmentsIn(colls, c, s)

(* all_sources *)
AllSources(coll) == coll.instrument_sources \cup coll.control_sources

(* no TrainIterator at work; a finished one is dropped at the next call *)
NoIter == [active |-> FALSE, data |-> 0, tids |-> <<>>, pos |-> 0,
           require_all |-> FALSE, out |-> <<>>]

(* The record of the call that was made last. *)
NoCall ==
    [op |-> "init", recv |-> 0, res |-> 0, outcome |-> "ok", at |-> "",
     ix_start |-> None, ix_stop |-> None,
     kind |-> "", start |-> None, stop |-> None, step |-> None,
     tidtype |-> "", source |-> "", key |-> "", labels |-> <<>>,
     sel |-> [shape |-> "", v |-> <<>>], sel2 |-> [shape |-> "", v |-> <<>>],
     file |-> ""]

(* ------------------------------ add_file ------------------------------- *)

KnownCategory(id) == id.category \in {"INSTRUMENT", "CONTROL", ""}

(* the sources a file declares, by category (lines 62-78) *)
FileInstrument(f) ==
    {DataSourceId(f)[i].h5_source : i \in
        {j \in 1..Len(DataSourceId(f)) : DataSourceId(f)[j].category = "INSTRUMENT"}}

FileControl(f) ==
    {DataSourceId(f)[i].h5_source : i \in
        {j \in 1..Len(DataSourceId(f)) : DataSourceId(f)[j].category = "CONTROL"}}

FileSources(f) == FileInstrument(f) \cup FileControl(f)

(* lines 80-83: the segment is appended to the list object the registry    *)
(* holds for the source; a list is created only when the source is new.    *)
AppendSegments(cs, c, f) ==
    LET seg == [train_ids |-> FileTrainIds(f), file |-> f]
        owner(s) == IF s \in DOMAIN cs[c].sfm THEN cs[c].sfm[s] ELSE c
    IN [o \in DOMAIN cs |->
          [cs[o] EXCEPT
             !.own = [s \in Sources |->
                        IF s \in FileSources(f) /\ owner(s) = o
                        THEN Append(cs[o].own[s], seg)
                        ELSE cs[o].own[s]],
             !.sfm = IF o = c
                     THEN [s \in (DOMAIN cs[c].sfm) \cup FileSources(f) |-> owner(s)]
                     ELSE cs[o].sfm]]

(* line 85 *)
MergeTrainIds(old, new) == SortedSeq(Range(old) \cup Range(new))

add_file(c, f) ==
    /\ iter.active = FALSE
    /\ f \notin opened
    /\ Cardinality(opened) < MaxAdds
    /\ \A i \in 1..Len(DataSourceId(f)) : KnownCategory(DataSourceId(f)[i])
    /\ LET cs1 == AppendSegments(colls, c, f)
       IN colls' = [cs1 EXCEPT
             ![c].instrument_sources = @ \cup FileInstrument(f),
             ![c].control_sources = @ \cup FileControl(f),
             ![c].train_ids = MergeTrainIds(colls[c].train_ids, FileTrainIds(f))]
    /\ opened' = opened \cup {f}
    /\ last' = [NoCall EXCEPT !.op = "add_file", !.recv = c, !.file = f]
    /\ iter' = NoIter
    /\ UNCHANGED calls

(* ---------------------------- select_trains --------------------------- *)

(* What _tid_to_slice_ix gives: k = "ix" (a position, 0-based, in ix),     *)
(* "None", or the exception it raises.                                     *)
Ix(i) == [k |-> "ix", ix |-> i]
NoIx(kind) == [k |-> kind, ix |-> 0]

IsError(r) == r.k \notin {"ix", "None"}

(* train_ids.index(tid): the first position holding tid (0-based) *)
IndexOf(tid, train_ids) ==
    (CHOOSE i \in 1..Len(train_ids) :
        /\ train_ids[i] = tid
        /\ \A j \in 1..(i - 1) : train_ids[j] # tid) - 1

(* (train_ids > tid).nonzero()[0][0] where train_ids is an array *)
FirstGreater(tid, train_ids) ==
    (CHOOSE i \in 1..Len(train_ids) :
        /\ train_ids[i] > tid
        /\ \A j \in 1..(i - 1) : ~(train_ids[j] > tid)) - 1

(* Line 650 compares self.train_ids, a Python list, with tid.  With tid a  *)
(* Python int, list > int raises TypeError; with tid a numpy integer the   *)
(* comparison is numpy's, element by element.                              *)
GapIndex(tid, train_ids, tidtype) ==
    IF tidtype = "int" THEN NoIx("TypeError")
    ELSE IF \E i \in 1..Len(train_ids) : train_ids[i] > tid
         THEN Ix(FirstGreater(tid, train_ids))
         ELSE NoIx("IndexError")

(* _tid_to_slice_ix with both ends treated alike: an ID outside the run    *)
(* resolves to the nearer end whichever endpoint it is.                    *)
_tid_to_slice_ix_symmetric(tid, train_ids, stop, tidtype) ==
    IF tid = None THEN NoIx("None")
    ELSE IF tid \in Range(train_ids) THEN Ix(IndexOf(tid, train_ids))
    ELSE IF train_ids = <<>> THEN NoIx("IndexError")
    ELSE IF tid < train_ids[1] THEN NoIx("None")
    ELSE IF tid > train_ids[Len(train_ids)] THEN NoIx("None")
    ELSE GapIndex(tid, train_ids, tidtype)

_tid_to_slice_ix(tid, train_ids, stop, tidtype) ==
    IF tid = None THEN NoIx("None")
    ELSE IF tid \in Range(train_ids) THEN Ix(IndexOf(tid, train_ids))
    ELSE IF train_ids = <<>> THEN NoIx("IndexError")
    ELSE IF tid < train_ids[1]
         THEN (IF stop THEN NoIx("before this run") ELSE NoIx("None"))
    ELSE IF tid > train_ids[Len(train_ids)]
         THEN (IF stop THEN NoIx("None") ELSE NoIx("after this run"))
    ELSE GapIndex(tid, train_ids, tidtype)

(* the value a resolved endpoint puts into the slice *)
SliceArg(r) == IF r.k = "ix" THEN r.ix ELSE None

(* slice.indices(n) for a non-zero step: <<start, stop, step>> *)
Clamp(v, n, lo, hi) ==
    IF v < 0 THEN (IF v + n < 0 THEN lo ELSE v + n)
    ELSE (IF v >= n THEN hi ELSE v)

SliceIndices(n, start, stop, step) ==
    LET st == IF step = None THEN 1 ELSE step
    IN IF st > 0
       THEN <<IF start = None THEN 0 ELSE Clamp(start, n, 0, n),
              IF stop = None THEN n ELSE Clamp(stop, n, 0, n),
              st>>
       ELSE <<IF start = None THEN n - 1 ELSE Clamp(start, n, -1, n - 1),
              IF stop = None THEN -1 ELSE Clamp(stop, n, -1, n - 1),
              st>>

(* the number of positions a slice selects *)
SliceLen(b, e, st) ==
    IF st > 0
    THEN (IF e > b THEN (e - b + st - 1) \div st ELSE 0)
    ELSE (IF b > e THEN (b - e - st - 1) \div (0 - st) ELSE 0)

(* a slice that takes the default step for a stride of two *)
PySlice_stride(seq, start, stop, step) ==
    LET t == SliceIndices(Len(seq), start, stop, IF step = None THEN 2 ELSE step)
        n == SliceLen(t[1], t[2], t[3])
    IN [k \in 1..n |-> seq[t[1] + (k - 1) * t[3] + 1]]

(* seq[start:stop:step] of a Python list, step # 0 *)
PySlice(seq, start, stop, step) ==
    LET t == SliceIndices(Len(seq), start, stop, step)
        n == SliceLen(t[1], t[2], t[3])
    IN [k \in 1..n |-> seq[t[1] + (k - 1) * t[3] + 1]]

(* np.intersect1d(train_ids, res.train_ids).size > 0 (line 197) *)
Intersects(seg, train_ids) == Range(seg.train_ids) \cap Range(train_ids) # {}

(* lines 194-199: the segments of source s that the new collection keeps *)
KeptSegments(segs, train_ids) ==
    SelectSeq(segs, LAMBDA seg : Intersects(seg, train_ids))

(* lines 200-201: the comprehension iterates the dict itself, that is its  *)
(* keys, and unpacks each source name into (s, k).  A name is unpacked     *)
(* into two only if it has two characters; the names of this model, like   *)
(* real source names, do not, so any key makes the unpacking raise.        *)
UnpackSourceKeys(source_keys) ==
    IF DOMAIN source_keys = {} THEN "ok" ELSE "ValueError: unpack"

(* lines 206-207: cache entries are kept by source *)
CarryIndexCache(cache, kept_sources) ==
    Restrict(cache, {x \in DOMAIN cache : x[2] \in kept_sources})

(* The outcome of select_trains on collection c of heap cs: the slice it   *)
(* builds, or the exception that ends it.                                  *)
ResolveRange(train_ids, r) ==
    IF r.kind = "by_id"
    THEN LET a == _tid_to_slice_ix(r.start, train_ids, FALSE, r.tidtype)
             b == _tid_to_slice_ix(r.stop, train_ids, TRUE, r.tidtype)
         IN IF IsError(a)
            THEN [outcome |-> a.k, at |-> "start", start |-> None, stop |-> None]
            ELSE IF IsError(b)
            THEN [outcome |-> b.k, at |-> "stop", start |-> SliceArg(a), stop |-> None]
            ELSE [outcome |-> "ok", at |-> "", start |-> SliceArg(a), stop |-> SliceArg(b)]
    ELSE [outcome |-> "ok", at |-> "", start |-> r.start, stop |-> r.stop]

(* how the call ends, and where: resolving an endpoint (lines 184-185),   *)
(* slicing (line 193) or carrying the key dictionary over (line 200)      *)
SelectTrainsOutcome(coll, r) ==
    LET sl == ResolveRange(coll.train_ids, r)
    IN IF sl.outcome # "ok" THEN [outcome |-> sl.outcome, at |-> sl.at]
       ELSE IF r.step = 0 THEN [outcome |-> "ValueError: slice step", at |-> "slice"]
       ELSE [outcome |-> UnpackSourceKeys(coll.source_keys), at |-> "source_keys"]

(* lines 192-208: the collection select_trains returns, as object n *)
SelectTrainsResult(cs, c, r, n) ==
    LET sl == ResolveRange(cs[c].train_ids, r)
        tids == PySlice(cs[c].train_ids, sl.start, sl.stop, r.step)
        kept(s) == KeptSegments(SegmentsIn(cs, c, s), tids)
        srcs == {s \in DOMAIN cs[c].sfm : kept(s) # <<>>}
    IN [instrument_sources |-> {s \in cs[c].instrument_sources : s \in srcs},
        control_sources |-> {s \in cs[c].control_sources : s \in srcs},
        train_ids |-> tids,
        sfm |-> [s \in srcs |-> n],
        own |-> [s \in Sources |-> IF s \in srcs THEN kept(s) ELSE <<>>],
        index_cache |-> CarryIndexCache(cs[c].index_cache, srcs),
        source_keys |-> EmptyFn]

CallSelectTrains(c, r) ==
    LET sl == ResolveRange(colls[c].train_ids, r)
    IN [NoCall EXCEPT !.op = "select_trains", !.recv = c, !.kind = r.kind,
                      !.start = r.start, !.stop = r.stop, !.step = r.step,
                      !.tidtype = r.tidtype,
                      !.ix_start = sl.start, !.ix_stop = sl.stop]

select_trains(c, r, budget) ==
    /\ iter.active = FALSE
    /\ calls < budget
    /\ calls' = calls + 1
    /\ LET out == SelectTrainsOutcome(colls[c], r)
       IN IF out.outcome = "ok"
          THEN /\ Len(colls) < MaxColls
               /\ colls' = Append(colls, SelectTrainsResult(colls, c, r, Len(colls) + 1))
               /\ last' = [CallSelectTrains(c, r) EXCEPT !.res = Len(colls) + 1]
          ELSE /\ colls' = colls
               /\ last' = [CallSelectTrains(c, r) EXCEPT !.outcome = out.outcome,
                                                         !.at = out.at]
    /\ iter' = NoIter
    /\ UNCHANGED opened

(* the ranges offered to select_trains *)
Endpoints == {None} \cup 0..MaxTid
Positions == {None} \cup (0 - MaxIx)..MaxIx
Steps == {None, 2, -1}

ById(a, b, st, ty) ==
    [kind |-> "by_id", start |-> a, stop |-> b, step |-> st, tidtype |-> ty]
ByIndex(a, b, st) ==
    [kind |-> "by_index", start |-> a, stop |-> b, step |-> st, tidtype |-> ""]

AllRanges ==
    {ById(a, b, st, ty) : a \in Endpoints, b \in Endpoints, st \in Steps,
                          ty \in {"int", "numpy"}}
    \cup {ByIndex(a, b, st) : a \in Positions, b \in Positions, st \in Steps \cup {0}}

(* the ranges offered where the heap, not the range, is what is explored *)
FewRanges ==
    {ByIndex(0, 1, None), ByIndex(1, None, None), ByIndex(None, None, -1),
     ById(2, 5, None, "numpy"), ById(0, 4, None, "int")}

(* ------------------------------- select -------------------------------- *)

(* A name or a glob as the pieces fnmatch works on; "*" is the wildcard.   *)
Tok(name) ==
    CASE name = "val.value" -> <<"val", ".", "value">>
      [] name = "val.timestamp" -> <<"val", ".", "timestamp">>
      [] name = "image.data" -> <<"image", ".", "data">>
      [] name = "header.pulseId" -> <<"header", ".", "pulseId">>
      [] name = "image.*" -> <<"image", ".", "*">>
      [] name = "*.data" -> <<"*", ".", "data">>
      [] OTHER -> <<name>>

RECURSIVE Match(_, _)
(* re.compile(fnmatch.translate(p)).match(n), on pieces *)
Match(p, n) ==
    IF p = <<>> THEN n = <<>>
    ELSE IF Head(p) = "*"
         THEN Match(Tail(p), n) \/ (n # <<>> /\ Match(p, Tail(n)))
         ELSE n # <<>> /\ Head(n) = Head(p) /\ Match(Tail(p), Tail(n))

(* key_glob.endswith(('.value', '*')) (line 120) *)
EndsWithValueOrStar(p) ==
    \/ (p # <<>> /\ p[Len(p)] = "*")
    \/ (Len(p) >= 2 /\ p[Len(p) - 1] = "." /\ p[Len(p)] = "value")

(* ctrl_key_re (lines 120-126): the key pattern with an optional ".value" *)
CtrlKeyMatch(p, n) ==
    IF EndsWithValueOrStar(p) THEN Match(p, n)
    ELSE Match(p, n) \/ Match(p \o <<".", "value">>, n)

(* _keys_for_source (lines 363-388): the keys recorded for the source, or  *)
(* else the datasets of the first file the registry lists for it.          *)
KeysForSource(cs, c, s) ==
    IF s \in DOMAIN cs[c].source_keys THEN cs[c].source_keys[s]
    ELSE FileKeys(s)

(* ... and the dictionary it leaves behind (line 387) *)
DiscoverKeys(cs, c, S) ==
    [s \in (DOMAIN cs[c].source_keys) \cup S |-> KeysForSource(cs, c, s)]

(* _select_glob (lines 117-143): the pairs matched; raises when empty *)
GlobMatched(cs, c, source_glob, key_glob) ==
    LET srcs == {s \in AllSources(cs[c]) : Match(Tok(source_glob), Tok(s))}
    IN IF key_glob = "*" THEN {<<s, "*">> : s \in srcs}
       ELSE UNION {{<<s, k>> : k \in
                      {k \in KeysForSource(cs, c, s) :
                         IF s \in cs[c].control_sources
                         THEN CtrlKeyMatch(Tok(key_glob), Tok(k))
                         ELSE Match(Tok(key_glob), Tok(k))}} : s \in srcs}

(* the sources _select_glob asks _keys_for_source about (line 137) *)
GlobAsked(cs, c, source_glob, key_glob) ==
    IF key_glob = "*" THEN {}
    ELSE {s \in AllSources(cs[c]) : Match(Tok(source_glob), Tok(s))}

RECURSIVE ExpandList(_, _, _)
(* _expand_selection on a list of glob pairs (lines 102-111): the pairs    *)
(* are expanded in order, and the first without a match raises.            *)
ExpandList(cs, c, pairs) ==
    IF pairs = <<>> THEN [outcome |-> "ok", selection |-> {}, asked |-> {}]
    ELSE LET m == GlobMatched(cs, c, pairs[1][1], pairs[1][2])
             a == GlobAsked(cs, c, pairs[1][1], pairs[1][2])
             rest == ExpandList(cs, c, Tail(pairs))
         IN IF m = {}
            THEN [outcome |-> "ValueError: no matches", selection |-> {}, asked |-> a]
            ELSE [outcome |-> rest.outcome,
                  selection |-> m \cup rest.selection,
                  asked |-> a \cup rest.asked]

(* A mapping selector is written as its (source, key) entries, with the   *)
(* key "" standing for a source that maps to the empty set.               *)
DictSources(v) == {v[i][1] : i \in 1..Len(v)}

DictKeys(v, s) == {v[i][2] : i \in {j \in 1..Len(v) : v[j][1] = s /\ v[j][2] # ""}}

(* _expand_selection on a mapping (lines 92-100) *)
ExpandDict(cs, c, v) ==
    IF \E s \in DictSources(v) : s \notin AllSources(cs[c])
    THEN [outcome |-> "ValueError: source not in run", selection |-> {}, asked |-> {}]
    ELSE [outcome |-> "ok",
          selection |-> UNION {{<<s, k>> : k \in
                                  IF DictKeys(v, s) = {} THEN {"*"} ELSE DictKeys(v, s)} :
                                  s \in DictSources(v)},
          asked |-> {}]

(* lines 148-153: the selector normalised to (source, key) pairs *)
Expand(cs, c, sel) ==
    CASE sel.shape = "glob" -> ExpandList(cs, c, sel.v)
      [] sel.shape = "list" -> ExpandList(cs, c, sel.v)
      [] sel.shape = "dict" -> ExpandDict(cs, c, sel.v)
      [] sel.shape = "set" -> [outcome |-> "ok", selection |-> Range(sel.v), asked |-> {}]

SelectedSources(selection) == {p[1] : p \in selection}

SelectedKeys(selection, s) == {p[2] : p \in {q \in selection : q[1] = s}}

SelectOutcome(cs, c, sel) ==
    LET e == Expand(cs, c, sel)
    IN IF e.outcome # "ok" THEN e.outcome
       ELSE IF SelectedSources(e.selection) \subseteq DOMAIN cs[c].sfm THEN "ok"
       ELSE "KeyError"

(* lines 163-167 *)
CollectTrainIds(cs, c, srcs) ==
    SortedSeq(UNION {UNION {Range(SegmentsIn(cs, c, s)[i].train_ids) :
                              i \in 1..Len(SegmentsIn(cs, c, s))} : s \in srcs})

(* a select that lets go of the receiver's restriction on a "*" key *)
SelectSourceKeys_forget(cs, c, selection) ==
    LET srcs == SelectedSources(selection)
    IN [s \in {x \in srcs : "*" \notin SelectedKeys(selection, x)} |->
          SelectedKeys(selection, s)]

(* lines 169-178: cs is the heap after the key discovery of the expansion *)
SelectSourceKeys(cs, c, selection) ==
    LET srcs == SelectedSources(selection)
        has(s) == IF "*" \in SelectedKeys(selection, s)
                  THEN s \in DOMAIN cs[c].source_keys
                  ELSE TRUE
    IN [s \in {x \in srcs : has(x)} |->
          IF "*" \in SelectedKeys(selection, s)
          THEN cs[c].source_keys[s]
          ELSE SelectedKeys(selection, s)]

(* lines 156-162: the registry entries are the receiver's list objects *)
SelectRegistry(cs, c, srcs) == [s \in srcs |-> cs[c].sfm[s]]

SelectResult(cs, c, selection) ==
    LET srcs == SelectedSources(selection)
    IN [instrument_sources |-> cs[c].instrument_sources \cap srcs,
        control_sources |-> cs[c].control_sources \cap srcs,
        train_ids |-> CollectTrainIds(cs, c, srcs),
        sfm |-> SelectRegistry(cs, c, srcs),
        own |-> [s \in Sources |-> <<>>],
        index_cache |-> Restrict(cs[c].index_cache,
                                 {x \in DOMAIN cs[c].index_cache : x[2] \in srcs}),
        source_keys |-> SelectSourceKeys(cs, c, selection)]

select(c, sel) ==
    /\ iter.active = FALSE
    /\ calls < MaxCalls
    /\ calls' = calls + 1
    /\ LET e == Expand(colls, c, sel)
           out == SelectOutcome(colls, c, sel)
           cs1 == [colls EXCEPT ![c].source_keys = DiscoverKeys(colls, c, e.asked)]
       IN IF out = "ok"
          THEN /\ Len(colls) < MaxColls
               /\ colls' = Append(cs1, SelectResult(cs1, c, e.selection))
               /\ last' = [NoCall EXCEPT !.op = "select", !.recv = c, !.sel = sel,
                                         !.res = Len(colls) + 1]
          ELSE /\ colls' = cs1
               /\ last' = [NoCall EXCEPT !.op = "select", !.recv = c, !.sel = sel,
                                         !.outcome = out]
    /\ iter' = NoIter
    /\ UNCHANGED opened

(* the selectors offered to select *)
Glob(sg, kg) == [shape |-> "glob", v |-> <<<<sg, kg>>>>]

Selectors ==
    {Glob("*", "*"), Glob("X", "*"), Glob("Y", "*"), Glob("X", "val"),
     Glob("Y", "image.*"), Glob("*", "*.data"),
     [shape |-> "list", v |-> <<<<"X", "val">>, <<"Y", "*">>>>],
     [shape |-> "dict", v |-> <<<<"Y", "header.pulseId">>>>],
     [shape |-> "dict", v |-> <<<<"X", "">>>>],
     [shape |-> "set", v |-> <<<<"X", "*">>, <<"Y", "image.data">>>>]}

(* select(X).select(Y) (lines 145-180, twice): the second select is made  *)
(* on the collection the first returns, which nothing else refers to.     *)
(* It is the last call of a run that is explored.                         *)
select_select(c, selX, selY) ==
    /\ iter.active = FALSE
    /\ calls < MaxCalls
    /\ calls' = MaxCalls
    /\ LET n == Len(colls) + 1
           e1 == Expand(colls, c, selX)
           out1 == SelectOutcome(colls, c, selX)
           cs1 == [colls EXCEPT ![c].source_keys = DiscoverKeys(colls, c, e1.asked)]
           cs2 == Append(cs1, SelectResult(cs1, c, e1.selection))
           e2 == Expand(cs2, n, selY)
           out2 == IF out1 # "ok" THEN out1 ELSE SelectOutcome(cs2, n, selY)
           cs3 == [cs2 EXCEPT ![n].source_keys = DiscoverKeys(cs2, n, e2.asked)]
           call == [NoCall EXCEPT !.op = "select.select", !.recv = c,
                                  !.sel = selX, !.sel2 = selY]
       IN IF out2 = "ok"
          THEN /\ Len(colls) < MaxColls
               /\ colls' = Append(cs1, SelectResult(cs3, n, e2.selection))
               /\ last' = [call EXCEPT !.res = n]
          ELSE /\ colls' = cs1
               /\ last' = [call EXCEPT !.outcome = out2,
                                       !.at = IF out1 # "ok" THEN "first" ELSE "second"]
    /\ iter' = NoIter
    /\ UNCHANGED opened

(* the glob selectors offered to select(X).select(Y) *)
SourceGlobs == {"*", "X", "Y"}

KeyGlobs == {"*", "val", "image.*", "*.data"}

GlobSelectors == {Glob(sg, kg) : sg \in SourceGlobs, kg \in KeyGlobs}

(* ----------------------------- index cache ----------------------------- *)

RECURSIVE Offsets(_, _)
(* INDEX/<source>/<group>/first: the row offset of each train's records *)
Offsets(counts, from) ==
    IF counts = <<>> THEN <<>>
    ELSE <<from>> \o Offsets(Tail(counts), from + Head(counts))

(* _read_index (lines 345-357) *)
_read_index(f, s, g) ==
    [firsts |-> Offsets(FileCount(f, s, g), 0), counts |-> FileCount(f, s, g)]

(* _get_index (lines 333-343): the cached pair, read on a miss *)
_get_index(cache, f, s, g) ==
    IF <<f, s, g>> \in DOMAIN cache THEN cache[<<f, s, g>>] ELSE _read_index(f, s, g)

(* ... and the cache it leaves behind (line 342) *)
CacheAfter(cache, f, s, g) == Put(cache, <<f, s, g>>, _get_index(cache, f, s, g))

RECURSIVE FillIndex(_, _, _, _)
(* _get_index over the segments in order; a file without the index group  *)
(* raises KeyError in _read_index (line 350) and ends the loop.            *)
FillIndex(cache, segs, s, g) ==
    IF segs = <<>> THEN [outcome |-> "ok", cache |-> cache]
    ELSE IF <<segs[1].file, s, g>> \notin DOMAIN cache /\ ~HasIndexGroup(segs[1].file, s, g)
         THEN [outcome |-> "KeyError", cache |-> cache]
         ELSE FillIndex(CacheAfter(cache, segs[1].file, s, g), Tail(segs), s, g)

(* detector_info (lines 514-535), as far as the collection is concerned *)
detector_info(c, s) ==
    /\ iter.active = FALSE
    /\ calls < MaxCalls
    /\ calls' = calls + 1
    /\ LET r == IF s \in DOMAIN colls[c].sfm
                THEN FillIndex(colls[c].index_cache, Segments(c, s), s, "image")
                ELSE [outcome |-> "KeyError", cache |-> colls[c].index_cache]
       IN /\ colls' = [colls EXCEPT ![c].index_cache = r.cache]
          /\ last' = [NoCall EXCEPT !.op = "detector_info", !.recv = c, !.source = s,
                                    !.outcome = r.outcome]
    /\ iter' = NoIter
    /\ UNCHANGED opened

(* ------------------------------ get_array ------------------------------- *)

RECURSIVE Repeat(_, _)
(* np.repeat(ids, counts) *)
Repeat(ids, counts) ==
    IF ids = <<>> THEN <<>>
    ELSE [k \in 1..Head(counts) |-> Head(ids)] \o Repeat(Tail(ids), Tail(counts))

Min(a, b) == IF a < b THEN a ELSE b

(* an expansion that labels every train once, whatever its count *)
_expand_trainids_once(counts, trainIds) ==
    SubSeq(trainIds, 1, Min(Len(counts), Len(trainIds)))

(* _expand_trainids (lines 359-361) *)
_expand_trainids(counts, trainIds) ==
    LET n == Min(Len(counts), Len(trainIds))
    IN Repeat(SubSeq(trainIds, 1, n), SubSeq(counts, 1, n))

(* the arrays left in the order the files were added *)
SortByFirst_unsorted(arrs) == arrs

RECURSIVE SortByFirst(_)
(* sorted(non_empty, key=lambda a: a.coords['trainId'][0]), a stable sort *)
SortByFirst(arrs) ==
    IF Len(arrs) <= 1 THEN arrs
    ELSE LET init == SortByFirst(SubSeq(arrs, 1, Len(arrs) - 1))
             x == arrs[Len(arrs)]
             k == Cardinality({i \in 1..Len(init) : init[i][1] <= x[1]})
         IN SubSeq(init, 1, k) \o <<x>> \o SubSeq(init, k + 1, Len(init))

RECURSIVE Concat(_)
Concat(arrs) == IF arrs = <<>> THEN <<>> ELSE Head(arrs) \o Concat(Tail(arrs))

NonEmpty(a) == a # <<>>

(* lines 252-264: the row labels of the array returned *)
ConcatArrays(seq_arrays) ==
    LET non_empty == SelectSeq(seq_arrays, NonEmpty)
    IN IF non_empty = <<>>
       THEN (IF seq_arrays # <<>>
             THEN [outcome |-> "ok", labels |-> seq_arrays[1]]
             ELSE [outcome |-> "Exception", labels |-> <<>>])
       ELSE [outcome |-> "ok", labels |-> Concat(SortByFirst(non_empty))]

(* lines 220-229: one array per segment, labelled by the segment's IDs *)
ControlArrays(segs) == [i \in 1..Len(segs) |-> segs[i].train_ids]

RECURSIVE InstrumentArrays(_, _, _, _, _)
(* lines 231-248: the per-segment arrays of an instrument source; acc is   *)
(* the arrays built so far.                                                *)
InstrumentArrays(cache, segs, s, g, acc) ==
    IF segs = <<>> THEN [outcome |-> "ok", cache |-> cache, arrays |-> acc]
    ELSE LET ix == _get_index(cache, segs[1].file, s, g)
             cache1 == CacheAfter(cache, segs[1].file, s, g)
         IN IF \E i \in 1..Len(ix.counts) : ix.counts[i] > 1
            THEN [outcome |-> "ValueError: more than one data point per train",
                  cache |-> cache1, arrays |-> acc]
            ELSE InstrumentArrays(cache1, Tail(segs), s, g,
                     Append(acc, _expand_trainids(ix.counts, segs[1].train_ids)))

(* get_array (lines 216-264): outcome, row labels and the cache left *)
GetArray(cs, c, s, key) ==
    IF s \notin AllSources(cs[c])
    THEN [outcome |-> "SourceNameError", labels |-> <<>>, cache |-> cs[c].index_cache]
    ELSE IF key \notin KeysForSource(cs, c, s)
    THEN [outcome |-> "PropertyNameError", labels |-> <<>>, cache |-> cs[c].index_cache]
    ELSE IF s \in cs[c].control_sources
    THEN LET r == ConcatArrays(ControlArrays(SegmentsIn(cs, c, s)))
         IN [outcome |-> r.outcome, labels |-> r.labels, cache |-> cs[c].index_cache]
    ELSE LET a == InstrumentArrays(cs[c].index_cache, SegmentsIn(cs, c, s), s,
                                   GroupOf(key), <<>>)
             r == ConcatArrays(a.arrays)
         IN IF a.outcome # "ok"
            THEN [outcome |-> a.outcome, labels |-> <<>>, cache |-> a.cache]
            ELSE [outcome |-> r.outcome, labels |-> r.labels, cache |-> a.cache]

get_array(c, s, key) ==
    /\ iter.active = FALSE
    /\ calls < MaxCalls
    /\ calls' = calls + 1
    /\ LET r == GetArray(colls, c, s, key)
           asked == IF s \in AllSources(colls[c]) THEN {s} ELSE {}
       IN /\ colls' = [colls EXCEPT ![c].index_cache = r.cache,
                                    ![c].source_keys = DiscoverKeys(colls, c, asked)]
          /\ last' = [NoCall EXCEPT !.op = "get_array", !.recv = c, !.source = s,
                                    !.key = key, !.outcome = r.outcome,
                                    !.labels = r.labels]
    /\ iter' = NoIter
    /\ UNCHANGED opened

(* the fields asked of get_array *)
ArrayKeys == {"val.value", "image.data", "header.pulseId"}

(* ------------------------- trains / TrainIterator ----------------------- *)

(* DataCollection._find_data (lines 390-396): the first segment holding    *)
(* the train, and the train's position in it (0-based).                    *)
_find_data(cs, c, s, tid) ==
    LET segs == SegmentsIn(cs, c, s)
        hits == {i \in 1..Len(segs) : tid \in Range(segs[i].train_ids)}
    IN IF hits = {} THEN [found |-> FALSE, file |-> "", pos |-> 0]
       ELSE LET i == CHOOSE x \in hits : \A y \in hits : x <= y
            IN [found |-> TRUE, file |-> segs[i].file,
                pos |-> IndexOf(tid, segs[i].train_ids)]

(* the orders in which a Python set may be iterated *)
Orders(S) == {q \in [1..Cardinality(S) -> S] : Range(q) = S}

(* the groups of the keys of a source (line 450) *)
GroupsOf(keys) == {GroupOf(k) : k \in keys}

RECURSIVE MissingInGroups(_, _, _, _, _)
(* lines 451-454: the groups in the order gs, ending at the first group    *)
(* that has no record of the train; the index cache fills on the way.      *)
MissingInGroups(cache, f, pos, s, gs) ==
    IF gs = <<>> THEN [missing |-> FALSE, cache |-> cache]
    ELSE LET ix == _get_index(cache, f, s, gs[1])
             cache1 == CacheAfter(cache, f, s, gs[1])
         IN IF ix.counts[pos + 1] = 0
            THEN [missing |-> TRUE, cache |-> cache1]
            ELSE MissingInGroups(cache1, f, pos, s, Tail(gs))

RECURSIVE MissingInInstruments(_, _, _, _, _)
(* lines 445-454: the instrument sources in the order ss; the collection   *)
(* c of heap cs fills its key dictionary and index cache on the way.       *)
MissingInInstruments(cs, c, tid, ss, gorder) ==
    IF ss = <<>> THEN [missing |-> FALSE, heap |-> cs]
    ELSE LET fd == _find_data(cs, c, ss[1], tid)
             keys == KeysForSource(cs, c, ss[1])
             gs == SelectSeq(gorder, LAMBDA g : g \in GroupsOf(keys))
             r == MissingInGroups(cs[c].index_cache, fd.file, fd.pos, ss[1], gs)
             cs1 == [cs EXCEPT ![c].source_keys = DiscoverKeys(cs, c, {ss[1]}),
                               ![c].index_cache = r.cache]
         IN IF ~fd.found THEN [missing |-> TRUE, heap |-> cs]
            ELSE IF r.missing THEN [missing |-> TRUE, heap |-> cs1]
            ELSE MissingInInstruments(cs1, c, tid, Tail(ss), gorder)

(* a _check_data_missing that looks for the files only, not the counts *)
_check_data_missing_files(cs, c, tid, sorder, gorder) ==
    [missing |-> \E s \in AllSources(cs[c]) : ~_find_data(cs, c, s, tid).found,
     heap |-> cs]

(* _check_data_missing (lines 438-456) *)
_check_data_missing(cs, c, tid, sorder, gorder) ==
    IF \E s \in cs[c].control_sources : ~_find_data(cs, c, s, tid).found
    THEN [missing |-> TRUE, heap |-> cs]
    ELSE MissingInInstruments(cs, c, tid, sorder, gorder)

RECURSIVE FillGroups(_, _, _, _)
FillGroups(cache, f, s, G) ==
    IF G = {} THEN cache
    ELSE LET g == CHOOSE x \in G : TRUE
         IN FillGroups(CacheAfter(cache, f, s, g), f, s, G \ {g})

RECURSIVE FillSources(_, _, _, _)
(* the index cache after _assemble_data read every instrument source *)
FillSources(cs, c, tid, S) ==
    IF S = {} THEN cs[c].index_cache
    ELSE LET s == CHOOSE x \in S : TRUE
             fd == _find_data(cs, c, s, tid)
             rest == FillSources(cs, c, tid, S \ {s})
         IN IF fd.found
            THEN FillGroups(rest, fd.file, s, GroupsOf(KeysForSource(cs, c, s)))
            ELSE rest

(* _assemble_data (lines 575-599): what it leaves in the collection ...    *)
AssembleHeap(cs, c, tid) ==
    [cs EXCEPT ![c].source_keys = DiscoverKeys(cs, c, AllSources(cs[c])),
               ![c].index_cache = FillSources(cs, c, tid, cs[c].instrument_sources)]

(* ... and the train it assembles: its ID and the keys filled per source   *)
AssembleData(cs, c, tid) ==
    [tid |-> tid,
     keys |-> [s \in AllSources(cs[c]) |->
                 IF _find_data(cs, c, s, tid).found
                 THEN KeysForSource(cs, c, s) ELSE {}]]

(* trains (lines 537-543): select, then select_trains, then the iterator.  *)
(* The collection iterated is the receiver itself or a new object; the     *)
(* generator body has not run yet when trains returns.                     *)
NoSel == [shape |-> "", v |-> <<>>]
NoRange == [kind |-> "", start |-> None, stop |-> None, step |-> None, tidtype |-> ""]

TrainsCall(c, devices, train_range, require_all) ==
    [NoCall EXCEPT !.op = "trains", !.recv = c, !.sel = devices,
                   !.kind = train_range.kind, !.start = train_range.start,
                   !.stop = train_range.stop, !.step = train_range.step,
                   !.tidtype = train_range.tidtype]

trains(c, devices, train_range, require_all) ==
    /\ iter.active = FALSE
    /\ calls < MaxCalls
    /\ calls' = calls + 1
    /\ LET n == Len(colls) + 1
           e == Expand(colls, c, devices)
           out1 == IF devices = NoSel THEN "ok" ELSE SelectOutcome(colls, c, devices)
           cs1 == IF devices = NoSel THEN colls
                  ELSE [colls EXCEPT ![c].source_keys = DiscoverKeys(colls, c, e.asked)]
           cs2 == IF devices = NoSel \/ out1 # "ok" THEN cs1
                  ELSE Append(cs1, SelectResult(cs1, c, e.selection))
           dc1 == IF devices = NoSel THEN c ELSE n
           out2 == IF out1 # "ok" THEN out1
                   ELSE IF train_range = NoRange THEN "ok"
                   ELSE SelectTrainsOutcome(cs2[dc1], train_range).outcome
           cs3 == IF out2 # "ok" THEN cs1
                  ELSE IF train_range = NoRange THEN cs2
                  ELSE Append(cs1, SelectTrainsResult(cs2, dc1, train_range, n))
           dc == IF devices = NoSel /\ train_range = NoRange THEN c ELSE n
       IN /\ (out2 = "ok" /\ dc = n) => Len(colls) < MaxColls
          /\ colls' = cs3
          /\ last' = [TrainsCall(c, devices, train_range, require_all) EXCEPT
                         !.outcome = out2, !.res = IF out2 = "ok" THEN dc ELSE 0]
          /\ iter' = IF out2 = "ok"
                     THEN [active |-> TRUE, data |-> dc, tids |-> cs3[dc].train_ids,
                           pos |-> 0, require_all |-> require_all, out |-> <<>>]
                     ELSE NoIter
    /\ UNCHANGED opened

(* TrainIterator.__iter__ (lines 601-607), one train of the loop: skipped  *)
(* or yielded.  The loop runs over the list object it was started on.      *)
iter_train ==
    /\ iter.active
    /\ iter.pos < Len(iter.tids)
    /\ \E sorder \in Orders(colls[iter.data].instrument_sources), gorder \in Orders(Groups) :
          LET tid == iter.tids[iter.pos + 1]
              chk == IF iter.require_all
                     THEN _check_data_missing(colls, iter.data, tid, sorder, gorder)
                     ELSE [missing |-> FALSE, heap |-> colls]
          IN IF chk.missing
             THEN /\ colls' = chk.heap
                  /\ iter' = [iter EXCEPT !.pos = @ + 1]
             ELSE /\ colls' = AssembleHeap(chk.heap, iter.data, tid)
                  /\ iter' = [iter EXCEPT !.pos = @ + 1,
                                          !.out = Append(@, AssembleData(chk.heap, iter.data, tid))]
    /\ UNCHANGED <<opened, last, calls>>

(* ... and its end: the loop is over and the iterator is dropped *)
iter_stop ==
    /\ iter.active
    /\ iter.pos = Len(iter.tids)
    /\ iter' = [iter EXCEPT !.active = FALSE]
    /\ UNCHANGED <<colls, opened, last, calls>>

(* the device selections and ranges offered to trains *)
Devices ==
    {NoSel, Glob("Y", "image.*"),
     [shape |-> "dict", v |-> <<<<"Y", "header.pulseId">>>>]}

TrainRanges == {NoRange, ByIndex(1, None, None)}

(* ------------------------------- system -------------------------------- *)

Init ==
    /\ colls = <<NewCollection>>
    /\ opened = {}
    /\ last = NoCall
    /\ iter = NoIter
    /\ calls = 0

Next ==
    \/ \E c \in CollIds, f \in FileIds : add_file(c, f)
    \/ \E c \in CollIds, r \in FewRanges : select_trains(c, r, MaxCalls)
    \/ \E c \in CollIds, sel \in Selectors : select(c, sel)
    \/ \E c \in CollIds, s \in Sources : detector_info(c, s)

Spec == Init /\ [][Next]_vars

(* The train range resolver explored over every range. *)
NextRange ==
    \/ \E c \in CollIds, f \in FileIds : add_file(c, f)
    \/ \E c \in CollIds, r \in AllRanges : select_trains(c, r, MaxRangeCalls)

SpecRange == Init /\ [][NextRange]_vars

(* Data assembly explored over collections built, selected and sliced. *)
NextArray ==
    \/ \E c \in CollIds, f \in FileIds : add_file(c, f)
    \/ \E c \in CollIds, r \in FewRanges : select_trains(c, r, MaxCalls)
    \/ \E c \in CollIds, s \in Sources, key \in ArrayKeys : get_array(c, s, key)

SpecArray == Init /\ [][NextArray]_vars

(* Iteration over collections built and selected; a loop over the trains  *)
(* runs to its end before anything else is called.                        *)
NextIter ==
    \/ \E c \in CollIds, f \in FileIds : add_file(c, f)
    \/ \E c \in CollIds, sel \in Devices \ {NoSel} : select(c, sel)
    \/ \E c \in CollIds, d \in Devices, r \in TrainRanges, ra \in BOOLEAN :
          trains(c, d, r, ra)
    \/ iter_train
    \/ iter_stop

SpecIter == Init /\ [][NextIter]_vars

(* Collections built, narrowed to a train range or to some keys, and then *)
(* selected twice.                                                        *)
NextChain ==
    \/ \E c \in CollIds, f \in FileIds : add_file(c, f)
    \/ \E c \in CollIds, r \in FewRanges : select_trains(c, r, MaxRangeCalls)
    \/ \E c \in CollIds, sel \in Devices \ {NoSel} : select(c, sel)
    \/ \E c \in CollIds, x \in GlobSelectors, y \in GlobSelectors :
          select_select(c, x, y)

SpecChain == Init /\ [][NextChain]_vars

(* ============================== the claims ============================== *)

StrictlyIncreasing(seq) == \A i \in 1..(Len(seq) - 1) : seq[i] < seq[i + 1]

NonDecreasing(seq) == \A i \in 1..(Len(seq) - 1) : seq[i] <= seq[i + 1]

(* the train IDs of every segment the registry of c retains *)
RegistryTrainIds(c) ==
    UNION {UNION {Range(Segments(c, s)[i].train_ids) : i \in 1..Len(Segments(c, s))} :
             s \in DOMAIN colls[c].sfm}

(* what a collection holds, its registry read through the list objects *)
ViewIn(cs, c) ==
    [control_sources |-> cs[c].control_sources,
     instrument_sources |-> cs[c].instrument_sources,
     registry |-> [s \in DOMAIN cs[c].sfm |-> SegmentsIn(cs, c, s)],
     index_cache |-> cs[c].index_cache,
     source_keys |-> cs[c].source_keys,
     train_ids |-> cs[c].train_ids]

RegistryTrainIdsOf(c, s) ==
    UNION {Range(Segments(c, s)[i].train_ids) : i \in 1..Len(Segments(c, s))}

(* C1: in every collection reached by add_file, select and select_trains,  *)
(* the train-ID list is strictly increasing and is the sorted union of     *)
(* the train IDs of the segments its registry retains.                     *)
C1_TrainIdsAreSortedUnion ==
    \A c \in CollIds :
        /\ StrictlyIncreasing(colls[c].train_ids)
        /\ colls[c].train_ids = SortedSeq(RegistryTrainIds(c))

(* C2: a select or select_trains call, returning or raising, leaves the    *)
(* receiver's sources, registry, index cache, key dictionary and train-ID  *)
(* list as they were, and what it returns is a new collection.             *)
C2_SelectionLeavesReceiver ==
    [][last'.op \in {"select", "select_trains"} =>
         /\ ViewIn(colls', last'.recv) = ViewIn(colls, last'.recv)
         /\ last'.res # 0 => (last'.res \notin CollIds /\ last'.res = Len(colls'))]_vars

(* C3: an operation on one collection leaves every other collection's      *)
(* registry, index cache, key dictionary and train-ID list as they were.   *)
C3_CollectionsShareNothing ==
    [][\A d \in CollIds : d # last'.recv => ViewIn(colls', d) = ViewIn(colls, d)]_vars

(* the train-ID list select_trains worked on: the receiver's *)
CallTrainIds == colls[last.recv].train_ids

IsIdRange == last.op = "select_trains" /\ last.kind = "by_id" /\ CallTrainIds # <<>>

Below(tid) == tid # None /\ \A t \in Range(CallTrainIds) : tid < t

Above(tid) == tid # None /\ \A t \in Range(CallTrainIds) : tid > t

(* C4: with a train-ID range, a start below the first known ID resolves to *)
(* the beginning and a stop above the last known ID to the end, neither    *)
(* raising; a stop below the first known ID and a start above the last     *)
(* each raise the out-of-run error and no collection is returned.          *)
C4_EndpointsOutsideRun ==
    IsIdRange =>
        /\ Below(last.start) => (last.at # "start" /\ last.ix_start = None)
        /\ (Above(last.stop) /\ last.at # "start") =>
               (last.at # "stop" /\ last.ix_stop = None)
        /\ (Below(last.stop) /\ last.at # "start") =>
               (last.at = "stop" /\ last.outcome = "before this run" /\ last.res = 0)
        /\ Above(last.start) =>
               (last.at = "start" /\ last.outcome = "after this run" /\ last.res = 0)

(* the same ID, below the run, taken as a start and refused as a stop *)
C4_Witness ==
    /\ IsIdRange
    /\ Below(last.start)
    /\ last.stop = last.start
    /\ last.outcome = "before this run"

(* the known IDs t with start <= t < stop, in the order of the list *)
IdsBetween(train_ids, a, b) ==
    SelectSeq(train_ids, LAMBDA t : (a = None \/ a <= t) /\ (b = None \/ t < b))

(* C5: with by_id(a, b) and the default step, an endpoint in a gap of the  *)
(* run resolves to the next known ID, so that unless an out-of-run error   *)
(* is raised the call returns exactly the known IDs t with a <= t < b.     *)
C5_GapResolvesToNextId ==
    (IsIdRange /\ last.step = None
       /\ last.outcome \notin {"before this run", "after this run"}) =>
        /\ last.res # 0
        /\ colls[last.res].train_ids = IdsBetween(CallTrainIds, last.start, last.stop)

(* C6: in the collection select_trains returns, a segment with no train ID *)
(* in the new list is in neither the registry nor the index cache, and a   *)
(* source left without a segment is in neither of them nor in the source   *)
(* sets.                                                                   *)
C6_DroppedSegmentsLeaveNoTrace ==
    (last.op = "select_trains" /\ last.res # 0) =>
        LET d == colls[last.res]
        IN \A s \in DOMAIN colls[last.recv].sfm :
              /\ \A i \in 1..Len(Segments(last.recv, s)) :
                    LET seg == Segments(last.recv, s)[i]
                    IN ~Intersects(seg, d.train_ids) =>
                          /\ s \in DOMAIN d.sfm => seg \notin Range(Segments(last.res, s))
                          /\ \A g \in Groups : <<seg.file, s, g>> \notin DOMAIN d.index_cache
              /\ (\A i \in 1..Len(Segments(last.recv, s)) :
                     ~Intersects(Segments(last.recv, s)[i], d.train_ids)) =>
                    /\ s \notin DOMAIN d.sfm
                    /\ s \notin AllSources(d)
                    /\ \A x \in DOMAIN d.index_cache : x[2] # s

IsContiguousIn(sub, seq) ==
    \E k \in 0..(Len(seq) - Len(sub)) : \A i \in 1..Len(sub) : sub[i] = seq[k + i]

(* C7 as stated: whatever the start, stop and step, the list returned by   *)
(* select_trains is a contiguous sub-sequence of the receiver's.           *)
C7_ResultIsContiguous ==
    (last.op = "select_trains" /\ last.res # 0) =>
        IsContiguousIn(colls[last.res].train_ids, CallTrainIds)

(* C7 as amended: with the default step the list returned by select_trains *)
(* is a contiguous sub-sequence of the receiver's; with any step its IDs   *)
(* are IDs of the receiver's list.                                         *)
C7_DefaultStepIsContiguous ==
    (last.op = "select_trains" /\ last.res # 0) =>
        /\ Range(colls[last.res].train_ids) \subseteq Range(CallTrainIds)
        /\ last.step = None => IsContiguousIn(colls[last.res].train_ids, CallTrainIds)

(* a train-ID range with both endpoints in gaps that returns part of the run *)
C7_Witness ==
    /\ last.op = "select_trains" /\ last.res # 0 /\ last.step = None
    /\ last.kind = "by_id"
    /\ colls[last.res].train_ids # <<>>
    /\ Len(colls[last.res].train_ids) < Len(CallTrainIds)

(* the segments of the source get_array was asked about *)
CallSegments == Segments(last.recv, last.source)

IsArrayCall ==
    /\ last.op = "get_array"
    /\ last.source \in AllSources(colls[last.recv])
    /\ last.key \in FileKeys(last.source)

SegMin(seg) == CHOOSE t \in Range(seg.train_ids) : \A u \in Range(seg.train_ids) : t <= u

SegMax(seg) == CHOOSE t \in Range(seg.train_ids) : \A u \in Range(seg.train_ids) : t >= u

(* the segments cover pairwise disjoint train-ID ranges *)
DisjointRanges(segs) ==
    \A i, j \in 1..Len(segs) :
        (i # j /\ segs[i].train_ids # <<>> /\ segs[j].train_ids # <<>>) =>
            (SegMax(segs[i]) < SegMin(segs[j]) \/ SegMax(segs[j]) < SegMin(segs[i]))

(* C8: for a source whose segments cover pairwise disjoint train-ID        *)
(* ranges, the rows get_array returns are labelled in ascending order,     *)
(* for a control source by every train ID of every segment, whatever the   *)
(* order the files were added in.                                          *)
C8_DisjointSegmentsAscend ==
    (IsArrayCall /\ last.outcome = "ok" /\ DisjointRanges(CallSegments)) =>
        /\ NonDecreasing(last.labels)
        /\ last.source \in colls[last.recv].control_sources =>
              last.labels = SortedSeq(RegistryTrainIdsOf(last.recv, last.source))

(* two segments of a control source, the later trains added first *)
C8_Witness ==
    /\ IsArrayCall /\ last.outcome = "ok"
    /\ last.source \in colls[last.recv].control_sources
    /\ Len(CallSegments) = 2
    /\ CallSegments[1].train_ids # <<>> /\ CallSegments[2].train_ids # <<>>
    /\ SegMax(CallSegments[2]) < SegMin(CallSegments[1])
    /\ Len(last.labels) = 4

(* how often a train ID labels a row *)
Occurrences(labels, t) == Cardinality({i \in 1..Len(labels) : labels[i] = t})

(* every train of every segment labels as many rows as its count says *)
LabelledPerCount(labels, segs, s, g) ==
    /\ \A i \in 1..Len(segs) : \A k \in 1..Len(segs[i].train_ids) :
          Occurrences(labels, segs[i].train_ids[k]) = FileCount(segs[i].file, s, g)[k]
    /\ \A i \in 1..Len(labels) : \E j \in 1..Len(segs) : labels[i] \in Range(segs[j].train_ids)

SomeCountAboveOne(segs, s, g) ==
    \E i \in 1..Len(segs) : \E k \in 1..Len(FileCount(segs[i].file, s, g)) :
        FileCount(segs[i].file, s, g)[k] > 1

IsInstrumentCall == IsArrayCall /\ last.source \in colls[last.recv].instrument_sources

(* C9 as stated: for an instrument source get_array returns one row per    *)
(* physical record, each train ID labelling as many rows as its count,     *)
(* counts of zero none (counts 0,2,1 over three trains give 3 rows).       *)
C9_LabelsRepeatPerCount ==
    (IsInstrumentCall /\ DisjointRanges(CallSegments)) =>
        /\ last.outcome = "ok"
        /\ NonDecreasing(last.labels)
        /\ LabelledPerCount(last.labels, CallSegments, last.source, GroupOf(last.key))

(* C9 as amended: when no train has a count above one, get_array returns   *)
(* one row per record, labelled by the trains of count one; when some      *)
(* train of a segment has a count above one, it raises the                 *)
(* more-than-one-data-point error and returns nothing.                     *)
C9_LabelsPerCountUnlessMany ==
    (IsInstrumentCall /\ DisjointRanges(CallSegments)) =>
        IF SomeCountAboveOne(CallSegments, last.source, GroupOf(last.key))
        THEN last.outcome = "ValueError: more than one data point per train"
        ELSE /\ last.outcome = "ok"
             /\ NonDecreasing(last.labels)
             /\ LabelledPerCount(last.labels, CallSegments, last.source, GroupOf(last.key))

(* counts 1,0 over trains 4,5: one row, labelled 4 *)
C9_Witness ==
    /\ IsInstrumentCall /\ last.outcome = "ok"
    /\ last.key = "image.data"
    /\ Len(CallSegments) = 1
    /\ last.labels = <<4>>

(* the train IDs a loop over trains() has yielded so far *)
Yielded == [i \in 1..Len(iter.out) |-> iter.out[i].tid]

(* the part of the selected list the loop has gone through *)
Examined == SubSeq(iter.tids, 1, iter.pos)

(* source s of the iterated collection has a segment that holds the train, *)
(* and, for an instrument source, a record of it in each of its groups     *)
HasData(s, tid) ==
    \E i \in 1..Len(Segments(iter.data, s)) :
        LET seg == Segments(iter.data, s)[i]
        IN /\ tid \in Range(seg.train_ids)
           /\ s \in colls[iter.data].instrument_sources =>
                \A g \in GroupsOf(KeysForSource(colls, iter.data, s)) :
                    FileCount(seg.file, s, g)[IndexOf(tid, seg.train_ids) + 1] # 0

HasAllData(tid) == \A s \in AllSources(colls[iter.data]) : HasData(s, tid)

(* source s has no segment holding any train of the selected list *)
InNoTrain(s) ==
    \A t \in Range(iter.tids) : t \notin RegistryTrainIdsOf(iter.data, s)

(* C10: the train IDs yielded by trains() are, in the order of the        *)
(* selected train-ID list and each at most once, the whole list when       *)
(* require_all is False, and when it is True exactly the IDs for which     *)
(* every control source has a segment holding the ID and every instrument  *)
(* source has one holding it with a non-zero count in each of its groups;  *)
(* a source present in no train gives no train under require_all and an    *)
(* empty entry in every train otherwise.                                   *)
C10_YieldsSelectedTrains ==
    iter.data # 0 =>
        /\ iter.tids = colls[iter.data].train_ids
        /\ Yielded = IF iter.require_all THEN SelectSeq(Examined, HasAllData)
                     ELSE Examined
        /\ \A i, j \in 1..Len(Yielded) : i < j => Yielded[i] # Yielded[j]
        /\ \A s \in AllSources(colls[iter.data]) :
              InNoTrain(s) =>
                 IF iter.require_all THEN Yielded = <<>>
                 ELSE \A i \in 1..Len(iter.out) : iter.out[i].keys[s] = {}

(* a finished loop under require_all that yielded train 4 and skipped      *)
(* train 5, of which the image group has no record                         *)
C10_Witness ==
    /\ iter.data # 0 /\ ~iter.active /\ iter.require_all
    /\ iter.tids = <<4, 5>>
    /\ Yielded = <<4>>
    /\ HasData("X", 5) /\ ~HasData("Y", 5)

(* a finished loop over a collection one source of which is in no train:   *)
(* every train is yielded, with nothing for that source                    *)
C10_WitnessAbsentSource ==
    /\ iter.data # 0 /\ ~iter.active /\ ~iter.require_all
    /\ "X" \in AllSources(colls[iter.data]) /\ InNoTrain("X")
    /\ Len(iter.out) = 3

(* the (source, key) pairs of collection c that a glob selector matches,   *)
(* a key glob matching a control key also by its ".value"                  *)
MatchedPairs(c, g) ==
    {p \in AllSources(colls[c]) \X UNION {FileKeys(s) : s \in Sources} :
        /\ p[2] \in KeysForSource(colls, c, p[1])
        /\ Match(Tok(g.v[1][1]), Tok(p[1]))
        /\ IF p[1] \in colls[c].control_sources
           THEN CtrlKeyMatch(Tok(g.v[1][2]), Tok(p[2]))
           ELSE Match(Tok(g.v[1][2]), Tok(p[2]))}

(* the pairs matched by both selectors of the last select(X).select(Y) *)
MatchedByBoth == MatchedPairs(last.recv, last.sel) \cap MatchedPairs(last.recv, last.sel2)

(* what one select of exactly those pairs returns *)
SingleSelect == SelectResult(colls, last.recv, MatchedByBoth)

(* the sources, the allowed keys per source and the train IDs of a collection *)
Visible(cs, coll) ==
    LET h == Append(cs, coll)
    IN [instrument_sources |-> coll.instrument_sources,
        control_sources |-> coll.control_sources,
        keys |-> [s \in AllSources(coll) |-> KeysForSource(h, Len(h), s)],
        train_ids |-> coll.train_ids]

(* C11: for glob selectors X and Y, select(X).select(Y) returns a         *)
(* collection with the same sources, the same allowed keys per source and  *)
(* the same train-ID list as one select of exactly the (source, key)       *)
(* pairs matched by both X and Y; it raises when no pair is matched by     *)
(* both.                                                                   *)
C11_SelectTwiceIsSelectBoth ==
    last.op = "select.select" =>
        IF last.outcome = "ok"
        THEN /\ MatchedByBoth # {}
             /\ Visible(colls, colls[last.res]) = Visible(colls, SingleSelect)
        ELSE MatchedByBoth = {}

(* image.* on every source and then every key of Y, on a collection with   *)
(* a control and an instrument source: Y alone is left, with image.data    *)
C11_Witness ==
    /\ last.op = "select.select" /\ last.outcome = "ok"
    /\ last.sel = Glob("*", "image.*") /\ last.sel2 = Glob("Y", "*")
    /\ AllSources(colls[last.recv]) = {"X", "Y"}
    /\ Visible(colls, colls[last.res]).keys = [s \in {"Y"} |-> {"image.data"}]
    /\ colls[last.res].train_ids # <<>>

(* C12: select never widens the set of visible trains: every train ID of   *)
(* the collection select returns is a train ID of the receiver, so a train *)
(* range imposed by an earlier select_trains still holds after a select.   *)
C12_SelectKeepsTrainRange ==
    (last.op = "select" /\ last.outcome = "ok") =>
        Range(colls[last.res].train_ids) \subseteq Range(colls[last.recv].train_ids)

(* the receiver of the last call has a key restriction for some source *)
HasKeyRestriction == DOMAIN colls[last.recv].source_keys # {}

(* the range of the last select_trains was resolved and sliced *)
RangeIsValid == last.at \notin {"start", "stop", "slice"}

(* C13: select_trains carries the key restriction over: on a receiver     *)
(* with a key restriction for some source and with a valid range, it       *)
(* returns a collection that allows, for every source it retains, the      *)
(* keys the receiver allows.                                               *)
C13_RangeKeepsKeyRestriction ==
    (last.op = "select_trains" /\ HasKeyRestriction /\ RangeIsValid) =>
        /\ last.outcome = "ok"
        /\ \A s \in AllSources(colls[last.res]) :
              KeysForSource(colls, last.res, s) = KeysForSource(colls, last.recv, s)

====
